---- MODULE Spec2Model ----
(***************************************************************************)
(* The four-step article generation wizard of src/app.py: keyword entry,   *)
(* title selection, structure confirmation, editing.  Texts are sequences  *)
(* of tokens; one token stands for one character or for one fixed run of   *)
(* characters of the Python string (a word, a string literal, a number).   *)
(***************************************************************************)
EXTENDS Integers, Sequences, FiniteSets, TLC

VARIABLES
    client_ok,            \* the module-level client is not None (app.py:55-70)
    step, keyword, titles, selected_title, article_structure, article,
    edited_article, seo_score, related_keywords, generating_titles,
    generating_structure, generating_article, current_section,
    total_sections, section_contents, progress,   \* st.session_state
    pc,                   \* position of the running process_article_generation, "idle" outside
    i,                    \* its loop index over structure["sections"]
    full_article,         \* its local full_article
    progress_bar,         \* the value of its local progress_bar widget
    calls,                \* the client.messages.create calls of the last handler, with their failure
    last,                 \* the last handler, the response it parsed, the text it gave to json.loads
    san_in, san_out, san_count,  \* a response text and its repeated sanitization
    files,                \* the working directory: file name -> content written
    clock,                \* the second datetime.now() gave to the last save_article
    filename              \* what the last save_article returned to the step 4 view

session == <<step, keyword, titles, selected_title, article_structure, article,
             edited_article, seo_score, related_keywords, generating_titles,
             generating_structure, generating_article, current_section,
             total_sections, section_contents, progress>>
locals == <<pc, i, full_article, progress_bar>>
history == <<calls, last>>
sanvars == <<san_in, san_out, san_count>>
disk == <<files, clock, filename>>
vars == <<client_ok, session, locals, history, sanvars, disk>>

-----------------------------------------------------------------------------
(* Bounds *)

MaxSanLen == 6        \* tokens of a text given to the sanitization alone
MaxSections == 1      \* elements of the "sections" array of a structure response
MaxClock == 1         \* the last second at which save_article reads the clock

-----------------------------------------------------------------------------
(* Python strings and their operations *)

RECURSIVE BoundedSeq(_, _)
BoundedSeq(S, n) ==
    IF n = 0 THEN {<<>>}
    ELSE LET shorter == BoundedSeq(S, n - 1)
         IN  shorter \cup {Append(s, c) : s \in {t \in shorter : Len(t) = n - 1}, c \in S}

Drop(s, n) == SubSeq(s, n + 1, Len(s))

StartsWith(s, m) == Len(s) >= Len(m) /\ SubSeq(s, 1, Len(m)) = m

\* m in s
Contains(s, m) == \E n1 \in 1..(Len(s) - Len(m) + 1) : SubSeq(s, n1, n1 + Len(m) - 1) = m

\* s.replace(m, ""): one left-to-right pass over non-overlapping occurrences
RECURSIVE Remove(_, _)
Remove(s, m) ==
    IF s = <<>> THEN <<>>
    ELSE IF StartsWith(s, m) THEN Remove(Drop(s, Len(m)), m)
    ELSE <<Head(s)>> \o Remove(Tail(s), m)

\* s.find(c) and s.rfind(c) as 1-based positions, 0 when c is absent
Find(s, c) == IF \E n1 \in 1..Len(s) : s[n1] = c
              THEN CHOOSE n1 \in 1..Len(s) : s[n1] = c /\ \A n2 \in 1..(n1 - 1) : s[n2] # c
              ELSE 0
RFind(s, c) == IF \E n1 \in 1..Len(s) : s[n1] = c
               THEN CHOOSE n1 \in 1..Len(s) : s[n1] = c /\ \A n2 \in (n1 + 1)..Len(s) : s[n2] # c
               ELSE 0

Whitespace == {" ", "\n"}

\* s.strip()
RECURSIVE LStrip(_)
LStrip(s) == IF s # <<>> /\ Head(s) \in Whitespace THEN LStrip(Tail(s)) ELSE s
RECURSIVE RStrip(_)
RStrip(s) == IF s # <<>> /\ s[Len(s)] \in Whitespace THEN RStrip(SubSeq(s, 1, Len(s) - 1)) ELSE s
Strip(s) == RStrip(LStrip(s))

\* s.split('\n')
RECURSIVE SplitLines(_)
SplitLines(s) ==
    LET p == Find(s, "\n")
    IN  IF p = 0 THEN <<s>>
        ELSE <<SubSeq(s, 1, p - 1)>> \o SplitLines(Drop(s, p))

\* [line.strip() for line in text.split('\n') if line.strip()]
RECURSIVE NonBlankStripped(_)
NonBlankStripped(lines) ==
    IF lines = <<>> THEN <<>>
    ELSE IF Strip(Head(lines)) # <<>>
         THEN <<Strip(Head(lines))>> \o NonBlankStripped(Tail(lines))
         ELSE NonBlankStripped(Tail(lines))

Digit == <<"1", "2", "3", "4", "5", "6", "7", "8", "9">>

\* str(n) of a natural number, one token per decimal digit
RECURSIVE NumStr(_)
NumStr(n) ==
    IF n < 10 THEN <<IF n = 0 THEN "0" ELSE Digit[n]>>
    ELSE NumStr(n \div 10) \o NumStr(n % 10)

-----------------------------------------------------------------------------
(* Removal of the special tags a response may carry *)

SearchOpen  == <<"<", "search_reminders", ">">>
SearchClose == <<"<", "/", "search_reminders", ">">>
AutoOpen    == <<"<", "automated_reminder_from_anthropic", ">">>
AutoClose   == <<"<", "/", "automated_reminder_from_anthropic", ">">>
Markers == {SearchOpen, SearchClose, AutoOpen, AutoClose}

Sanitize(text) ==
    IF Contains(text, SearchOpen) \/ Contains(text, AutoOpen)
    THEN Remove(Remove(Remove(Remove(text, SearchOpen), SearchClose), AutoOpen), AutoClose)
    ELSE text

-----------------------------------------------------------------------------
(* JSON texts and json.loads *)

\* Python values: an int, a str (a token sequence), a list, a dict (a function of its keys)
JInt(n)  == [k |-> "int",  v |-> n]
JStr(s)  == [k |-> "str",  v |-> s]
JList(l) == [k |-> "list", v |-> l]
JDict(d) == [k |-> "dict", v |-> d]
EmptyDict == [key \in {} |-> JInt(0)]

MetricNames == {"keyword_density", "title_optimization", "headings", "internal_links",
                "content_quality", "readability", "overall_score"}

\* One token per JSON string literal (the token stands for the quoted literal) and per number
StringTokens == MetricNames \cup {"sections", "heading", "keywords", "subheadings", "meta", "h1", "high"}
NumberTokens == {"0", "7", "85", "100", "150", "-5"}
NumVal(t) == CASE t = "0" -> 0 [] t = "7" -> 7 [] t = "85" -> 85 [] t = "100" -> 100
               [] t = "150" -> 150 [] t = "-5" -> 0 - 5

ParseFail == [ok |-> FALSE, val |-> JInt(0), rest |-> <<>>]
ParseOk(val, rest) == [ok |-> TRUE, val |-> val, rest |-> rest]

SetKey(d, key, val) == [x \in DOMAIN d \cup {key} |-> IF x = key THEN val ELSE d[x]]

\* The recursive-descent grammar of the JSON decoder: value, object members, array elements
RECURSIVE ParseValue(_), ParseMembers(_, _), ParseElements(_, _)
ParseValue(s) ==
    IF s = <<>> THEN ParseFail
    ELSE IF Head(s) \in NumberTokens THEN ParseOk(JInt(NumVal(Head(s))), Tail(s))
    ELSE IF Head(s) \in StringTokens THEN ParseOk(JStr(<<Head(s)>>), Tail(s))
    ELSE IF Head(s) = "{"
         THEN IF Len(s) >= 2 /\ s[2] = "}" THEN ParseOk(JDict(EmptyDict), Drop(s, 2))
              ELSE ParseMembers(Tail(s), EmptyDict)
    ELSE IF Head(s) = "["
         THEN IF Len(s) >= 2 /\ s[2] = "]" THEN ParseOk(JList(<<>>), Drop(s, 2))
              ELSE ParseElements(Tail(s), <<>>)
    ELSE ParseFail
ParseMembers(s, acc) ==
    IF Len(s) >= 2 /\ s[1] \in StringTokens /\ s[2] = ":"
    THEN LET r == ParseValue(Drop(s, 2))
         IN  IF ~r.ok \/ r.rest = <<>> THEN ParseFail
             ELSE IF Head(r.rest) = "}" THEN ParseOk(JDict(SetKey(acc, s[1], r.val)), Tail(r.rest))
             ELSE IF Head(r.rest) = "," THEN ParseMembers(Tail(r.rest), SetKey(acc, s[1], r.val))
             ELSE ParseFail
    ELSE ParseFail
ParseElements(s, acc) ==
    LET r == ParseValue(s)
    IN  IF ~r.ok \/ r.rest = <<>> THEN ParseFail
        ELSE IF Head(r.rest) = "]" THEN ParseOk(JList(Append(acc, r.val)), Tail(r.rest))
        ELSE IF Head(r.rest) = "," THEN ParseElements(Tail(r.rest), Append(acc, r.val))
        ELSE ParseFail

\* json.loads(text): ok = FALSE stands for the JSONDecodeError it raises
JsonLoads(text) ==
    LET IsInk(c) == c \notin Whitespace     \* whitespace between JSON tokens is skipped
        r == ParseValue(SelectSeq(text, IsInk))
    IN  IF r.ok /\ r.rest = <<>> THEN r ELSE ParseFail

\* The slice from the first "{" to the last "}" when the text has both, else the text itself
ExtractJson(text) ==
    IF Find(text, "{") # 0 /\ Find(text, "}") # 0
    THEN SubSeq(text, Find(text, "{"), RFind(text, "}"))
    ELSE text

\* len(x) is defined on list, str and dict; iteration yields elements, characters, keys
HasLen(x) == x.k \in {"list", "str", "dict"}
PyLen(x) == CASE x.k = "list" -> Len(x.v)
              [] x.k = "str"  -> Len(x.v)
              [] x.k = "dict" -> Cardinality(DOMAIN x.v)
              [] OTHER -> 0
RECURSIVE SetToSeq(_)
SetToSeq(S) == IF S = {} THEN <<>>
               ELSE LET e == CHOOSE e \in S : TRUE IN <<e>> \o SetToSeq(S \ {e})
PyIter(x) == CASE x.k = "list" -> x.v
               [] x.k = "str"  -> [n1 \in 1..Len(x.v) |-> JStr(<<x.v[n1]>>)]
               [] x.k = "dict" -> [n1 \in 1..Cardinality(DOMAIN x.v) |-> JStr(<<SetToSeq(DOMAIN x.v)[n1]>>)]
               [] OTHER -> <<>>

-----------------------------------------------------------------------------
(* Responses of client.messages.create *)

Raise == [k |-> "raise", t |-> <<>>]     \* the call raises
Empty == [k |-> "empty", t |-> <<>>]     \* response.content is empty
Text(t) == [k |-> "text", t |-> t]       \* response.content[0].text
NoResponse == [k |-> "none", t |-> <<>>]

-----------------------------------------------------------------------------
(* The generation functions *)

\* generate_titles: the list of titles
generate_titles(kw, resp, client) ==
    IF ~client THEN <<>>
    ELSE IF resp.k = "raise" THEN <<>>
    ELSE IF resp.k = "empty" THEN <<>>
    ELSE NonBlankStripped(SplitLines(Sanitize(resp.t)))

\* suggest_related_keywords: client.messages raises AttributeError when client is None
suggest_related_keywords(kw, resp, client) ==
    IF ~client \/ resp.k = "raise" THEN <<>>
    ELSE IF resp.k = "empty" THEN <<>>
    ELSE NonBlankStripped(SplitLines(Sanitize(resp.t)))

\* The string literals of the fallback structure: "一般読者", "導入部", "セクション1",
\* "内容の説明", "結論部"
FallbackAudience == <<"ippan-dokusha">>
FallbackIntroduction == <<"dounyuubu">>
FallbackHeading == <<"sekushon", "1">>
FallbackBrief == <<"naiyou-no-setsumei">>
FallbackConclusion == <<"ketsuronbu">>
FallbackWordCount == 1500

\* The fallback structure without its placeholder section
FallbackStructure_no_section(title, kw) ==
    JDict([meta |-> JDict([title |-> JStr(title), keyword |-> JStr(kw),
                           target_audience |-> JStr(FallbackAudience),
                           word_count |-> JInt(FallbackWordCount)]),
           introduction |-> JStr(FallbackIntroduction),
           sections |-> JList(<<>>),
           conclusion |-> JStr(FallbackConclusion)])

FallbackStructure(title, kw) ==
    JDict([meta |-> JDict([title |-> JStr(title), keyword |-> JStr(kw),
                           target_audience |-> JStr(FallbackAudience),
                           word_count |-> JInt(FallbackWordCount)]),
           introduction |-> JStr(FallbackIntroduction),
           sections |-> JList(<<JDict([heading |-> JStr(FallbackHeading),
                                       subheadings |-> JList(<<>>),
                                       keywords |-> JList(<<JStr(kw)>>),
                                       content_brief |-> JStr(FallbackBrief)])>>),
           conclusion |-> JStr(FallbackConclusion)])

\* The text generate_article_structure and analyze_seo give to json.loads
StructureJsonText(resp) == ExtractJson(Sanitize(resp.t))
ScoreJsonText(resp) == ExtractJson(Sanitize(Strip(resp.t)))

\* generate_article_structure: the parsed value when json.loads succeeds and
\* len(structure.get('sections', [])) can be logged, the fallback structure otherwise
generate_article_structure(title, kw, resp, client) ==
    IF ~client \/ resp.k = "raise" THEN FallbackStructure(title, kw)
    ELSE IF resp.k = "empty" THEN FallbackStructure(title, kw)
    ELSE LET r == JsonLoads(StructureJsonText(resp))
         IN  IF ~r.ok THEN FallbackStructure(title, kw)
             ELSE IF r.val.k # "dict" THEN FallbackStructure(title, kw)
             ELSE IF "sections" \in DOMAIN r.val.v /\ ~HasLen(r.val.v["sections"])
                  THEN FallbackStructure(title, kw)
             ELSE r.val

\* The placeholders of generate_article_part: "## はじめに\n\nこのブログ記事では...",
\* "## まとめ\n\nこの記事の要点...", f"## セクション {section_index + 1}\n\nこのセクションでは..."
FallbackIntroPart == <<"## hajimeni", "\n", "\n", "kono-burogu-kiji-dewa">>
FallbackConclusionPart == <<"## matome", "\n", "\n", "kono-kiji-no-youten">>
\* f"## セクション {section_index}"
FallbackSectionPart_zero_based(section_index) ==
    <<"## sekushon ">> \o NumStr(section_index) \o <<"\n", "\n", "kono-sekushon-dewa">>

\* f"## セクション {section_index + 1}\n\nこのセクションでは重要な情報を提供します。"
FallbackSectionPart(section_index) ==
    <<"## sekushon ">> \o NumStr(section_index + 1) \o <<"\n", "\n", "kono-sekushon-dewa">>

FallbackPart(part_type, section_index) ==
    IF part_type = "introduction" THEN FallbackIntroPart
    ELSE IF part_type = "conclusion" THEN FallbackConclusionPart
    ELSE FallbackSectionPart(section_index)

\* Building the section prompt raises before the call: section["heading"] on a missing key,
\* ', '.join(section_keywords) on a non-iterable or on non-str items, iteration of subheadings
SectionPromptRaises(section) ==
    \/ "heading" \notin DOMAIN section.v
    \/ /\ "keywords" \in DOMAIN section.v
       /\ \/ ~HasLen(section.v["keywords"])
          \/ \E n1 \in 1..PyLen(section.v["keywords"]) : PyIter(section.v["keywords"])[n1].k # "str"
    \/ /\ "subheadings" \in DOMAIN section.v
       /\ ~HasLen(section.v["subheadings"])

\* generate_article_part: the content returned, and whether client.messages.create was called
generate_article_part(title, kw, structure, part_type, section_index, resp, client) ==
    IF part_type \notin {"introduction", "conclusion"}
       /\ SectionPromptRaises(PyIter(structure.v["sections"])[section_index + 1])
    THEN [content |-> FallbackPart(part_type, section_index), called |-> FALSE]
    ELSE IF ~client THEN [content |-> FallbackPart(part_type, section_index), called |-> FALSE]
    ELSE IF resp.k = "raise" THEN [content |-> FallbackPart(part_type, section_index), called |-> TRUE]
    ELSE IF resp.k = "empty" THEN [content |-> FallbackPart(part_type, section_index), called |-> TRUE]
    ELSE [content |-> Sanitize(resp.t), called |-> TRUE]

ZeroScore == JDict([m \in MetricNames |-> JInt(0)])

\* analyze_seo: whatever json.loads returns, the all-zero record on any exception
analyze_seo(article_text, kw, resp, client) ==
    IF ~client \/ resp.k = "raise" THEN ZeroScore
    ELSE IF resp.k = "empty" THEN ZeroScore
    ELSE LET r == JsonLoads(ScoreJsonText(resp))
         IN  IF r.ok THEN r.val ELSE ZeroScore

-----------------------------------------------------------------------------
(* Progress fractions: the float n/d as the reduced pair <<n, d>> *)

RECURSIVE GCD(_, _)
GCD(a, b) == IF b = 0 THEN a ELSE GCD(b, a % b)
Frac(n, d) == <<n \div GCD(n, d), d \div GCD(n, d)>>
FracLeq(p, q) == p[1] * q[2] <= q[1] * p[2]

\* 0.1 + (0.8 * (i + 1) / total_sections), with i1 = i + 1
SectionProgress(i1, total) == Frac(total + 8 * i1, 10 * total)

-----------------------------------------------------------------------------
(* Inputs *)

Keywords == {<<"kw">>}

TitleResponses ==
    {Raise, Empty, Text(<<>>), Text(<<" ", "\n", " ">>), Text(SearchOpen),
     Text(<<"t1", "\n", "t2">>), Text(<<"t3">>),
     Text(SearchOpen \o <<"\n", " ", "t1", " ", "\n", "\n", "t2", "\n">> \o SearchClose)}

\* One list of related keywords; the empty list of a failed call is what a session
\* without client stores
RelatedResponses == {Text(<<"r1", "\n", "r2">>)}

\* A section with a heading and a section without one
SectionTexts == {<<"{", "heading", ":", "h1", "}">>, <<"{", "}">>}

RECURSIVE JoinComma(_)
JoinComma(ts) == IF ts = <<>> THEN <<>>
                 ELSE IF Len(ts) = 1 THEN ts[1]
                 ELSE ts[1] \o <<",">> \o JoinComma(Tail(ts))

StructureText(sectionTexts) ==
    <<"{", "sections", ":", "[">> \o JoinComma(sectionTexts) \o <<"]", "}">>

StructureResponses ==
    {Raise, Empty}
    \cup {Text(StructureText(ts)) : ts \in BoundedSeq(SectionTexts, MaxSections)}
    \cup {Text(<<"x">> \o StructureText(<<>>) \o <<"x">>),
          Text(SearchOpen \o StructureText(<<<<"{", "heading", ":", "h1", "}">>>>) \o SearchClose),
          Text(StructureText(<<<<"{", "heading", ":", "h1", "}">>, <<"{", "}">>>>)),
          Text(StructureText(<<<<"{", "heading", ":", "h1", "}">>, <<"h1">>>>)),
          Text(<<"{", "}">>), Text(<<"[", "{", "}", "]">>),
          Text(<<"{", "sections", ":", "7", "}">>),
          Text(<<"7">>), Text(<<"x">>), Text(<<"}", "{">>),
          Text(<<"{", "sections", ":", "[", "}">>)}

PartResponses == {Raise, Empty, Text(AutoOpen \o <<"p">> \o AutoClose)}

MetricSeq == <<"keyword_density", "title_optimization", "headings", "internal_links",
               "content_quality", "readability", "overall_score">>

RECURSIVE ScoreMembers(_, _)
ScoreMembers(names, val) ==
    IF names = <<>> THEN <<>>
    ELSE <<Head(names), ":", val[Head(names)]>>
         \o (IF Len(names) = 1 THEN <<>> ELSE <<",">>) \o ScoreMembers(Tail(names), val)
ScoreText(val) == <<"{">> \o ScoreMembers(MetricSeq, val) \o <<"}">>

ScoreResponses ==
    {Raise, Empty,
     Text(ScoreText([m \in MetricNames |-> "85"])),
     Text(<<"x", "\n">> \o ScoreText([m \in MetricNames |-> "85"]) \o <<"x">>),
     Text(ScoreText([m \in MetricNames |-> IF m = "overall_score" THEN "150" ELSE "85"])),
     Text(<<"85">>), Text(<<"x">>), Text(<<"{", "overall_score", ":", "}">>)}

-----------------------------------------------------------------------------
(* Session state *)

NoContents == [key \in {} |-> <<>>]
NoParse == NoResponse

\* app.py:83-117, the values of a fresh session
InitSession ==
    /\ step = 1
    /\ keyword = <<>>
    /\ titles = <<>>
    /\ selected_title = <<>>
    /\ article_structure = JDict(EmptyDict)
    /\ article = <<>>
    /\ edited_article = <<>>
    /\ seo_score = JDict(EmptyDict)
    /\ related_keywords = <<>>
    /\ generating_titles = FALSE
    /\ generating_structure = FALSE
    /\ generating_article = FALSE
    /\ current_section = 0
    /\ total_sections = 0
    /\ section_contents = NoContents
    /\ progress = Frac(0, 1)

\* No handler is running: process_article_generation has no locals
NoLocals == pc = "idle" /\ i = 0 /\ full_article = <<>> /\ progress_bar = Frac(0, 1)

Handled(op, resp, parsed) == [op |-> op, resp |-> resp, parsed |-> parsed]

\* None, where a file name is expected
NoFile == <<>>

\* No save_article has run: an empty directory
NoSave == files = NoContents /\ clock = 0 /\ filename = NoFile

Init ==
    /\ client_ok \in BOOLEAN
    /\ InitSession
    /\ NoLocals
    /\ calls = <<>>
    /\ last = Handled("start", NoResponse, NoParse)
    /\ san_in = <<>> /\ san_out = <<>> /\ san_count = 0
    /\ NoSave

-----------------------------------------------------------------------------
(* Handlers *)

Range(f) == {f[x] : x \in DOMAIN f}
Put(d, key, val) == [x \in DOMAIN d \cup {key} |-> IF x = key THEN val ELSE d[x]]

\* One entry of calls: the call was issued, and whether it raised or came back empty
Call(name, resp) == [name |-> name, failed |-> resp.k # "text"]
Issued(client, name, resp) == IF client THEN <<Call(name, resp)>> ELSE <<>>

\* bool(x) of a parsed value
Truthy(x) == IF x.k = "int" THEN x.v # 0 ELSE PyLen(x) # 0

\* app.py:779-808: the step 3 view outside its generating branch reaches its two buttons;
\* meta.get and section.get raise AttributeError on a value that is no dict
step3_view_renders ==
    /\ ~generating_article
    /\ "meta" \in DOMAIN article_structure.v => article_structure.v["meta"].k = "dict"
    /\ "sections" \in DOMAIN article_structure.v =>
          /\ HasLen(article_structure.v["sections"])
          /\ \A n1 \in 1..PyLen(article_structure.v["sections"]) :
                LET section == PyIter(article_structure.v["sections"])[n1]
                IN  /\ section.k = "dict"
                    /\ "subheadings" \in DOMAIN section.v => HasLen(section.v["subheadings"])

\* app.py:819-858: the step 4 view reaches its text area and its three buttons;
\* score.get raises AttributeError on a truthy score that is no dict
step4_view_renders == Truthy(seo_score) => seo_score.k = "dict"

\* f"section_{i}"
section_name_zero_based(idx) == <<"section_">> \o NumStr(idx)

\* f"section_{i+1}"
section_name(idx) == <<"section_">> \o NumStr(idx + 1)

\* next_step() whether or not a title was generated
step_after_titles_always(ts, cur) == cur + 1

\* app.py:172-177: step 2 when titles were generated, the step as it is otherwise
step_after_titles(ts, cur) == IF ts # <<>> THEN 2 ELSE cur

\* process_title_generation, called by the step 1 button with a non-empty keyword
process_title_generation(kw, tresp, rresp) ==
    /\ pc = "idle"
    /\ step = 1
    /\ kw # <<>>
    /\ keyword' = kw
    /\ titles' = generate_titles(kw, tresp, client_ok)
    /\ related_keywords' = suggest_related_keywords(kw, rresp, client_ok)
    /\ generating_titles' = FALSE
    /\ step' = step_after_titles(titles', step)
    /\ calls' = Issued(client_ok, <<"generate_titles">>, tresp)
                \o Issued(client_ok, <<"suggest_related_keywords">>, rresp)
    /\ last' = Handled("process_title_generation", tresp, NoParse)
    /\ UNCHANGED <<client_ok, selected_title, article_structure, article, edited_article,
                   seo_score, generating_structure, generating_article, current_section,
                   total_sections, section_contents, progress, locals, sanvars, disk>>

\* prev_step clearing what the later stage produced
prev_step_clearing ==
    /\ pc = "idle"
    /\ \/ step = 2
       \/ step = 3 /\ step3_view_renders
       \/ step = 4 /\ step4_view_renders
    /\ step' = step - 1
    /\ article' = IF step = 4 THEN <<>> ELSE article
    /\ calls' = <<>>
    /\ last' = Handled("prev_step", NoResponse, NoParse)
    /\ UNCHANGED <<client_ok, keyword, titles, selected_title, article_structure,
                   edited_article, seo_score, related_keywords, generating_titles,
                   generating_structure, generating_article, current_section,
                   total_sections, section_contents, progress, locals, sanvars, disk>>

\* prev_step, offered at step 2, and at step 3 and step 4 where the view reaches its buttons
prev_step ==
    /\ pc = "idle"
    /\ \/ step = 2
       \/ step = 3 /\ step3_view_renders
       \/ step = 4 /\ step4_view_renders
    /\ step' = step - 1
    /\ calls' = <<>>
    /\ last' = Handled("prev_step", NoResponse, NoParse)
    /\ UNCHANGED <<client_ok, keyword, titles, selected_title, article_structure, article,
                   edited_article, seo_score, related_keywords, generating_titles,
                   generating_structure, generating_article, current_section,
                   total_sections, section_contents, progress, locals, sanvars, disk>>

\* The radio offering the stored selected_title next to the titles
title_options_with_stored(ts) == Range(ts) \cup {selected_title}

\* st.radio("タイトルを選択", st.session_state.titles): one of the titles
title_options(ts) == Range(ts)

\* process_structure_generation, called by the step 2 button with the title of the radio;
\* structure["sections"] raises KeyError after article_structure is stored
process_structure_generation(sel, resp) ==
    /\ pc = "idle"
    /\ step = 2
    /\ titles # <<>>
    /\ sel \in title_options(titles)
    /\ sel # <<>>
    /\ selected_title' = sel
    /\ article_structure' = generate_article_structure(sel, keyword, resp, client_ok)
    /\ LET complete == "sections" \in DOMAIN article_structure'.v
       IN  /\ generating_structure' = ~complete
           /\ total_sections' = IF complete THEN PyLen(article_structure'.v["sections"])
                                ELSE total_sections
           /\ current_section' = IF complete THEN 0 ELSE current_section
           /\ section_contents' = IF complete THEN NoContents ELSE section_contents
           /\ step' = IF complete THEN 3 ELSE step
    /\ calls' = Issued(client_ok, <<"generate_article_structure">>, resp)
    /\ last' = Handled("process_structure_generation", resp,
                       IF client_ok /\ resp.k = "text"
                       THEN Text(StructureJsonText(resp)) ELSE NoParse)
    /\ UNCHANGED <<client_ok, keyword, titles, article, edited_article, seo_score,
                   related_keywords, generating_titles, generating_article, progress,
                   locals, sanvars, disk>>

\* process_article_generation, app.py:207-231: called by the step 3 button; the flag,
\* the heading line and the introduction
introduction_part(resp) ==
    /\ pc = "idle"
    /\ step = 3
    /\ step3_view_renders
    /\ generating_article' = TRUE
    /\ \E r \in {generate_article_part(selected_title, keyword, article_structure,
                                       "introduction", 0, resp, client_ok)} :
         /\ full_article' = <<"# ">> \o selected_title \o <<"\n", "\n">> \o r.content \o <<"\n", "\n">>
         /\ section_contents' = Put(section_contents, <<"introduction">>, r.content)
         /\ calls' = IF r.called THEN <<Call(<<"introduction">>, resp)>> ELSE <<>>
    /\ progress_bar' = Frac(1, 10)
    /\ pc' = "sections"
    /\ i' = 0
    /\ last' = Handled("process_article_generation", NoResponse, NoParse)
    /\ UNCHANGED <<client_ok, step, keyword, titles, selected_title, article_structure, article,
                   edited_article, seo_score, related_keywords, generating_titles,
                   generating_structure, current_section, total_sections, progress, sanvars, disk>>

\* process_article_generation, app.py:234-251: one iteration of the loop over
\* structure["sections"]; section.get raises AttributeError on an element that is no dict
\* and the handler ends there (the step 3 view raises on such an element before it offers
\* the button, so no run started from the view takes this branch)
section_part(resp) ==
    /\ pc = "sections"
    /\ i < PyLen(article_structure.v["sections"])
    /\ IF PyIter(article_structure.v["sections"])[i + 1].k # "dict"
       THEN /\ pc' = "idle" /\ i' = 0 /\ full_article' = <<>> /\ progress_bar' = Frac(0, 1)
            /\ UNCHANGED <<section_contents, progress, current_section, calls>>
       ELSE /\ \E r \in {generate_article_part(selected_title, keyword, article_structure,
                                               "section", i, resp, client_ok)} :
                 /\ full_article' = full_article \o r.content \o <<"\n", "\n">>
                 /\ section_contents' = Put(section_contents, section_name(i), r.content)
                 /\ calls' = IF r.called THEN Append(calls, Call(section_name(i), resp)) ELSE calls
            /\ progress_bar' = SectionProgress(i + 1, PyLen(article_structure.v["sections"]))
            /\ progress' = SectionProgress(i + 1, PyLen(article_structure.v["sections"]))
            /\ current_section' = i + 1
            /\ i' = i + 1
            /\ pc' = "sections"
    /\ UNCHANGED <<client_ok, step, keyword, titles, selected_title, article_structure, article,
                   edited_article, seo_score, related_keywords, generating_titles,
                   generating_structure, generating_article, total_sections, last, sanvars, disk>>

\* process_article_generation, app.py:253-265: the conclusion; article and edited_article
conclusion_part(resp) ==
    /\ pc = "sections"
    /\ i >= PyLen(article_structure.v["sections"])
    /\ \E r \in {generate_article_part(selected_title, keyword, article_structure,
                                       "conclusion", 0, resp, client_ok)} :
         /\ full_article' = full_article \o r.content
         /\ section_contents' = Put(section_contents, <<"conclusion">>, r.content)
         /\ calls' = IF r.called THEN Append(calls, Call(<<"conclusion">>, resp)) ELSE calls
    /\ progress_bar' = Frac(1, 1)
    /\ article' = full_article'
    /\ edited_article' = full_article'
    /\ pc' = "scoring"
    /\ UNCHANGED <<client_ok, step, keyword, titles, selected_title, article_structure,
                   seo_score, related_keywords, generating_titles, generating_structure,
                   generating_article, current_section, total_sections, progress, i, last,
                   sanvars, disk>>

\* process_article_generation, app.py:267-277: the score, the flag, step 4 and the rerun
seo_part(sresp) ==
    /\ pc = "scoring"
    /\ seo_score' = analyze_seo(full_article, keyword, sresp, client_ok)
    /\ generating_article' = FALSE
    /\ step' = 4
    /\ calls' = calls \o Issued(client_ok, <<"analyze_seo">>, sresp)
    /\ last' = Handled("process_article_generation", sresp,
                       IF client_ok /\ sresp.k = "text"
                       THEN Text(ScoreJsonText(sresp)) ELSE NoParse)
    /\ pc' = "idle" /\ i' = 0 /\ full_article' = <<>> /\ progress_bar' = Frac(0, 1)
    /\ UNCHANGED <<client_ok, keyword, titles, selected_title, article_structure, article,
                   edited_article, related_keywords, generating_titles, generating_structure,
                   current_section, total_sections, section_contents, progress, sanvars, disk>>

\* The step 4 restart button: every key is deleted and initialised again on the rerun
restart ==
    /\ pc = "idle"
    /\ step = 4
    /\ step4_view_renders
    /\ step' = 1
    /\ keyword' = <<>> /\ titles' = <<>> /\ selected_title' = <<>>
    /\ article_structure' = JDict(EmptyDict)
    /\ article' = <<>> /\ edited_article' = <<>>
    /\ seo_score' = JDict(EmptyDict)
    /\ related_keywords' = <<>>
    /\ generating_titles' = FALSE /\ generating_structure' = FALSE
    /\ generating_article' = FALSE
    /\ current_section' = 0 /\ total_sections' = 0
    /\ section_contents' = NoContents
    /\ progress' = Frac(0, 1)
    /\ calls' = <<>>
    /\ last' = Handled("restart", NoResponse, NoParse)
    /\ UNCHANGED <<client_ok, locals, sanvars, disk>>

\* "%02d" of a number below 100
Pad2(n) == IF n < 10 THEN <<"0">> \o NumStr(n) ELSE NumStr(n)

\* datetime.now().strftime("%Y%m%d_%H%M%S") at second now of the day; the day is one
\* token, the clock of the model stays within it
strftime(now) ==
    <<"YYYYMMDD", "_">> \o Pad2(now \div 3600) \o Pad2((now \div 60) % 60) \o Pad2(now % 60)

\* save_article: open(filename, "w") creates the file or truncates the one there is, and
\* the text is written; None when open raises
save_article(fs, title, article_text, now, opens) ==
    LET name == <<"blog_">> \o strftime(now) \o <<".md">>
    IN  IF opens THEN [files |-> Put(fs, name, article_text), filename |-> name]
        ELSE [files |-> fs, filename |-> NoFile]

\* The save button storing the edited text as the article as well
save_into_article(text, now, opens) ==
    /\ pc = "idle"
    /\ step = 4
    /\ step4_view_renders
    /\ text # <<>>
    /\ now >= clock
    /\ edited_article' = text
    /\ article' = text
    /\ \E r \in {save_article(files, selected_title, text, now, opens)} :
         files' = r.files /\ filename' = r.filename
    /\ clock' = now
    /\ calls' = <<>>
    /\ last' = Handled("save_article", NoResponse, NoParse)
    /\ UNCHANGED <<client_ok, step, keyword, titles, selected_title, article_structure,
                   seo_score, related_keywords, generating_titles, generating_structure,
                   generating_article, current_section, total_sections, section_contents,
                   progress, locals, sanvars>>

\* The step 4 save button, app.py:860-876, with the content of the text area: a non-empty
\* text is stored as edited_article and given to save_article
save(text, now, opens) ==
    /\ pc = "idle"
    /\ step = 4
    /\ step4_view_renders
    /\ text # <<>>
    /\ now >= clock
    /\ edited_article' = text
    /\ \E r \in {save_article(files, selected_title, text, now, opens)} :
         files' = r.files /\ filename' = r.filename
    /\ clock' = now
    /\ calls' = <<>>
    /\ last' = Handled("save_article", NoResponse, NoParse)
    /\ UNCHANGED <<client_ok, step, keyword, titles, selected_title, article_structure,
                   article, seo_score, related_keywords, generating_titles,
                   generating_structure, generating_article, current_section,
                   total_sections, section_contents, progress, locals, sanvars>>

GenerateTitles ==
    \E kw \in Keywords, tresp \in TitleResponses, rresp \in RelatedResponses :
        process_title_generation(kw, tresp, rresp)
\* A back button in the step 1 view as well
Back_at_step_1 ==
    /\ pc = "idle"
    /\ \/ step = 1
       \/ step = 2
       \/ step = 3 /\ step3_view_renders
       \/ step = 4 /\ step4_view_renders
    /\ step' = step - 1
    /\ calls' = <<>>
    /\ last' = Handled("prev_step", NoResponse, NoParse)
    /\ UNCHANGED <<client_ok, keyword, titles, selected_title, article_structure, article,
                   edited_article, seo_score, related_keywords, generating_titles,
                   generating_structure, generating_article, current_section,
                   total_sections, section_contents, progress, locals, sanvars, disk>>

Back == prev_step
GenerateStructure ==
    \E sel \in title_options(titles), resp \in StructureResponses :
        process_structure_generation(sel, resp)
GenerateIntroduction == \E resp \in PartResponses : introduction_part(resp)
GenerateSection == \E resp \in PartResponses : section_part(resp)
GenerateConclusion == \E resp \in PartResponses : conclusion_part(resp)
AnalyzeSeo == \E sresp \in ScoreResponses : seo_part(sresp)
Restart == restart

Next ==
    \/ GenerateTitles
    \/ Back
    \/ GenerateStructure
    \/ GenerateIntroduction
    \/ GenerateSection
    \/ GenerateConclusion
    \/ AnalyzeSeo
    \/ Restart

Spec == Init /\ [][Next]_vars

-----------------------------------------------------------------------------
(* The sanitization alone, applied to every text over the tokens of the four tags *)

SanAlphabet == {"<", "/", "search_reminders", "automated_reminder_from_anthropic", ">"}

InitSanitize ==
    /\ client_ok = TRUE
    /\ InitSession
    /\ NoLocals
    /\ calls = <<>>
    /\ last = Handled("start", NoResponse, NoParse)
    /\ san_in \in BoundedSeq(SanAlphabet, MaxSanLen)
    /\ san_out = san_in
    /\ san_count = 0
    /\ NoSave

\* app.py:326-334 (and its copies in the other generation functions), applied once more
sanitize_response ==
    /\ san_count < 2
    /\ san_out' = Sanitize(san_out)
    /\ san_count' = san_count + 1
    /\ UNCHANGED <<client_ok, session, locals, history, san_in, disk>>

NextSanitize == sanitize_response

SpecSanitize == InitSanitize /\ [][NextSanitize]_vars

-----------------------------------------------------------------------------
(* Editing and saving: every handler, the generation calls with one response each *)

\* What the user leaves in the text area: the stored edited_article, or a text typed over it
EditedTexts == {<<"edited">>}

OneTitleResponse == Text(<<"t1", "\n", "t2">>)
OneStructureResponse == Text(StructureText(<<<<"{", "heading", ":", "h1", "}">>>>))
OnePartResponse == Text(<<"p">>)
OneScoreResponse == Text(ScoreText([m \in MetricNames |-> "85"]))

RunTitles == \E kw \in Keywords : process_title_generation(kw, OneTitleResponse, Raise)
RunStructure == \E sel \in title_options(titles) : process_structure_generation(sel, OneStructureResponse)
RunIntroduction == introduction_part(OnePartResponse)
RunSection == section_part(OnePartResponse)
RunConclusion == conclusion_part(OnePartResponse)
RunScoring == seo_part(OneScoreResponse)
Save ==
    \E text \in {edited_article} \cup EditedTexts, now \in clock..MaxClock, opens \in BOOLEAN :
        save(text, now, opens)

NextSave ==
    \/ RunTitles
    \/ Back
    \/ RunStructure
    \/ RunIntroduction
    \/ RunSection
    \/ RunConclusion
    \/ RunScoring
    \/ Save
    \/ Restart

SpecSave == Init /\ [][NextSave]_vars

-----------------------------------------------------------------------------
(* Properties *)

RanTitles == pc = "idle" /\ last.op = "process_title_generation"
RanStructure == pc = "idle" /\ last.op = "process_structure_generation"
RanArticle == pc = "idle" /\ last.op = "process_article_generation"

\* C1: process_title_generation ends at step 2 with a non-empty titles list or at step 1,
\* and in every state with step >= 2 the stored titles list is non-empty.
C1_TitlesNonEmptyBeyondStep1 ==
    /\ step >= 2 => titles # <<>>
    /\ RanTitles => \/ step = 2 /\ titles # <<>>
                    \/ step = 1 /\ titles = <<>>

\* Title generation has failed at step 1 after an earlier run reached step 4 and went back
C1_Witness ==
    /\ RanTitles /\ step = 1 /\ titles = <<>>
    /\ article # <<>>
    /\ last.resp.k = "text"

HasBraces(text) == Find(text, "{") # 0 /\ Find(text, "}") # 0

\* The structure call raises, has no content, has no JSON object to extract, or its JSON
\* is malformed
StructureCallFails(resp) ==
    \/ resp.k \in {"raise", "empty"}
    \/ /\ resp.k = "text"
       /\ \/ ~HasBraces(Sanitize(resp.t))
          \/ ~JsonLoads(StructureJsonText(resp)).ok

\* C2: when the structure call fails, process_structure_generation stores the fallback
\* structure (one section with the placeholder heading, keywords = [keyword],
\* word_count = 1500) and sets step to 3.
C2_FailedStructureCallGivesFallback ==
    RanStructure /\ StructureCallFails(last.resp) =>
        /\ step = 3
        /\ article_structure.k = "dict"
        /\ "sections" \in DOMAIN article_structure.v
        /\ article_structure.v["sections"].k = "list"
        /\ Len(article_structure.v["sections"].v) = 1
        /\ article_structure.v["sections"].v[1].v["heading"] = JStr(FallbackHeading)
        /\ article_structure.v["sections"].v[1].v["keywords"] = JList(<<JStr(keyword)>>)
        /\ article_structure.v["meta"].v["word_count"] = JInt(1500)

\* The response was a text with braces whose JSON is malformed
C2_Witness ==
    /\ RanStructure /\ step = 3
    /\ last.resp.k = "text" /\ HasBraces(last.resp.t)
    /\ StructureCallFails(last.resp)

\* C3: whatever the response, process_structure_generation ends at step 3 with a
\* structure that has at least one section.
C3_StructureAlwaysHasSection ==
    RanStructure =>
        /\ step = 3
        /\ "sections" \in DOMAIN article_structure.v
        /\ PyLen(article_structure.v["sections"]) >= 1

IsPartCall(c) == c.name # <<"analyze_seo">>
ExpectedFallback(name) ==
    IF name = <<"introduction">> THEN FallbackIntroPart
    ELSE IF name = <<"conclusion">> THEN FallbackConclusionPart
    ELSE <<"## sekushon ">> \o Tail(name) \o <<"\n", "\n", "kono-sekushon-dewa">>

\* C4: a run of process_article_generation ends at step 4, every part whose call failed
\* holds the placeholder of its part type, and a failed scoring call leaves the all-zero
\* score.
C4_ArticleRunReachesStep4 ==
    RanArticle =>
        /\ step = 4
        /\ \A n \in 1..Len(calls) :
              IF IsPartCall(calls[n])
              THEN calls[n].failed => section_contents[calls[n].name] = ExpectedFallback(calls[n].name)
              ELSE calls[n].failed => seo_score = ZeroScore

\* The introduction call succeeded, the call of section 1 and the scoring call failed
C4_Witness ==
    /\ RanArticle /\ step = 4
    /\ Len(calls) = 4
    /\ ~calls[1].failed
    /\ calls[2].name = <<"section_", "1">> /\ calls[2].failed
    /\ calls[4].name = <<"analyze_seo">> /\ calls[4].failed

SectionCount == PyLen(article_structure.v["sections"])

ExpectedCalls(n) ==
    <<<<"introduction">>>> \o [x \in 1..n |-> <<"section_">> \o NumStr(x)]
    \o <<<<"conclusion">>, <<"analyze_seo">>>>

\* C5: a completed run over N sections has issued exactly the calls introduction,
\* section 1 .. section N, conclusion, scoring, in this order, each once.
C5_CallsInOrderOnce ==
    RanArticle /\ step = 4 =>
        [n \in 1..Len(calls) |-> calls[n].name] = ExpectedCalls(SectionCount)

RECURSIVE JoinBlankLine(_)
JoinBlankLine(parts) ==
    IF Len(parts) = 1 THEN parts[1]
    ELSE parts[1] \o <<"\n", "\n">> \o JoinBlankLine(Tail(parts))

ExpectedKeys(n) ==
    {<<"introduction">>, <<"conclusion">>} \cup {<<"section_">> \o NumStr(x) : x \in 1..n}

\* C6: at step 4 section_contents has exactly the keys introduction, section_1 ..
\* section_N, conclusion for the N sections of the stored structure, and the article is
\* the heading line, the introduction, the sections in order and the conclusion, joined
\* by one blank line.
C6_ArticleIsAssembledFromAllParts ==
    step = 4 =>
        /\ DOMAIN section_contents = ExpectedKeys(SectionCount)
        /\ article = JoinBlankLine(
                <<<<"# ">> \o selected_title, section_contents[<<"introduction">>]>>
                \o [x \in 1..SectionCount |-> section_contents[<<"section_">> \o NumStr(x)]]
                \o <<section_contents[<<"conclusion">>]>>)

\* An article of two sections with different contents
C6_Witness ==
    /\ step = 4
    /\ SectionCount = 2
    /\ section_contents[<<"section_", "1">>] # section_contents[<<"section_", "2">>]
    /\ section_contents[<<"introduction">>] # section_contents[<<"conclusion">>]

\* C7: during a run the stored progress is 0.1 after the introduction, 0.1 + 0.8*(i+1)/N
\* after section i, 1.0 after the conclusion, and always within [0,1].
C7_StoredProgressFollowsRun ==
    /\ FracLeq(Frac(0, 1), progress) /\ FracLeq(progress, Frac(1, 1))
    /\ pc = "sections" /\ i = 0 => progress = Frac(1, 10)
    /\ pc = "sections" /\ i > 0 => progress = Frac(SectionCount + 8 * i, 10 * SectionCount)
    /\ pc = "scoring" => progress = Frac(1, 1)

HasMarker(text) == \E m \in Markers : Contains(text, m)

\* C8: a sanitized text contains none of the four tags, and sanitizing it again returns
\* it unchanged.
C8_SanitizeRemovesAllAndIsIdempotent ==
    san_count >= 1 => ~HasMarker(san_out) /\ Sanitize(san_out) = san_out

\* C9: the structure and the scoring stage give json.loads the slice from the first "{"
\* to the last "}" of the sanitized response, and a response without "{" or without "}"
\* yields the stage's failure value.
C9_ExtractionOrFailureValue ==
    /\ RanStructure /\ last.resp.k = "text" =>
         IF HasBraces(Sanitize(last.resp.t))
         THEN last.parsed.t = SubSeq(Sanitize(last.resp.t), Find(Sanitize(last.resp.t), "{"),
                                     RFind(Sanitize(last.resp.t), "}"))
         ELSE article_structure = FallbackStructure(selected_title, keyword)
    /\ RanArticle /\ step = 4 /\ last.resp.k = "text" =>
         IF HasBraces(Sanitize(last.resp.t))
         THEN last.parsed.t = SubSeq(Sanitize(last.resp.t), Find(Sanitize(last.resp.t), "{"),
                                     RFind(Sanitize(last.resp.t), "}"))
         ELSE seo_score = ZeroScore

\* C10: after a run the stored score is a record of exactly the seven metrics, each an
\* integer in 0..100, and the all-zero record when the scoring call failed.
C10_ScoreIsSevenMetrics ==
    RanArticle /\ step = 4 =>
        /\ seo_score.k = "dict"
        /\ DOMAIN seo_score.v = MetricNames
        /\ \A m \in MetricNames : seo_score.v[m].k = "int" /\ seo_score.v[m].v \in 0..100
        /\ last.resp.k \in {"raise", "empty"} => seo_score = ZeroScore

\* C11: restart can be taken at every step 1..4 (whenever no handler is running and the
\* session holds anything of a run), and the state it leaves is the fresh session: step 1
\* and every field at its initial value.
C11_RestartFromEveryStep ==
    /\ pc = "idle" /\ ~InitSession => ENABLED restart
    /\ last.op = "restart" => InitSession

\* C12: the save button changes edited_article (and the directory) only: article,
\* seo_score, section_contents, article_structure and step keep their values and no call
\* is issued; a completed run leaves article = edited_article.
C12_SaveChangesEditedArticleOnly ==
    /\ [](RanArticle /\ step = 4 => article = edited_article)
    /\ [][last'.op = "save_article" =>
            /\ article' = article
            /\ seo_score' = seo_score
            /\ section_contents' = section_contents
            /\ article_structure' = article_structure
            /\ step' = step
            /\ selected_title' = selected_title
            /\ calls' = <<>>]_vars

\* A typed text has been saved over a generated article: the two differ
C12_Witness ==
    /\ last.op = "save_article"
    /\ step = 4
    /\ edited_article # article
    /\ filename # NoFile
    /\ files[filename] = edited_article

\* C13: no step replaces the content of a file an earlier save has written, and a save
\* that reports a file name has created that file: a save in the second of an earlier one
\* reports a failure.
C13_SaveNeverReplacesAFile ==
    [][/\ \A name \in DOMAIN files : name \in DOMAIN files' /\ files'[name] = files[name]
       /\ last'.op = "save_article" /\ filename' # NoFile => filename' \notin DOMAIN files]_vars

\* The stored article opens with the heading line of this title
ArticleOf(title) == StartsWith(article, <<"# ">> \o title \o <<"\n", "\n">>)

\* C14, as stated: in every state with step = 3 or step = 4 the selected title is one of
\* the stored titles, and a stored article was produced for one of the stored titles.
C14_EverythingForACandidate ==
    step \in {3, 4} =>
        /\ \E n1 \in 1..Len(titles) : titles[n1] = selected_title
        /\ article # <<>> => \E n1 \in 1..Len(titles) : ArticleOf(titles[n1])

\* C14, amended: in every state with step = 3 or step = 4 the selected title is one of the
\* stored titles, and at step 4 the stored article was produced for the selected title.
C14_SelectedTitleIsACandidate ==
    /\ step \in {3, 4} => \E n1 \in 1..Len(titles) : titles[n1] = selected_title
    /\ step = 4 => ArticleOf(selected_title)

\* The titles were generated again after an article for another title: the new title is
\* selected at step 3, the article of the earlier title is still stored
C14_Witness ==
    /\ step = 3
    /\ titles = <<<<"t3">>>>
    /\ selected_title = <<"t3">>
    /\ article # <<>>
    /\ article[2] # "t3"

\* C15: step is always one of 1, 2, 3, 4; a step of the program leaves it, or moves it
\* 1 -> 2 by title generation, 2 -> 3 by structure generation, 3 -> 4 by article
\* generation, down by one by back navigation at steps 2, 3, 4, or to 1 by restart.
C15_StepMovesByOne ==
    /\ [](step \in 1..4)
    /\ [][\/ step' = step
          \/ last'.op = "process_title_generation" /\ step = 1 /\ step' = 2
          \/ last'.op = "process_structure_generation" /\ step = 2 /\ step' = 3
          \/ last'.op = "process_article_generation" /\ step = 3 /\ step' = 4
          \/ last'.op = "prev_step" /\ step \in 2..4 /\ step' = step - 1
          \/ last'.op = "restart" /\ step = 4 /\ step' = 1]_vars

\* Back navigation has gone from step 4 down to step 1
C15_Witness ==
    /\ step = 1
    /\ last.op = "prev_step"
    /\ Truthy(seo_score)

\* C16: a step of prev_step decrements step by one and leaves every other field of the
\* session unchanged.
C16_BackKeepsEveryField ==
    [][last'.op = "prev_step" /\ step' # step =>
         /\ step \in 2..4
         /\ step' = step - 1
         /\ UNCHANGED <<keyword, titles, related_keywords, selected_title, article_structure,
                        section_contents, article, edited_article, seo_score, progress,
                        generating_titles, generating_structure, generating_article,
                        current_section, total_sections>>]_vars

\* Back from step 4: the article, its parts and its score are still stored at step 3
C16_Witness ==
    /\ step = 3
    /\ last.op = "prev_step"
    /\ article # <<>>
    /\ DOMAIN section_contents # {}
    /\ Truthy(seo_score)

\* C17: an in-progress flag is true only while its handler runs: whenever no handler is
\* running, generating_titles, generating_structure and generating_article are false.
C17_FlagsFalseBetweenHandlers ==
    pc = "idle" => ~generating_titles /\ ~generating_structure /\ ~generating_article

====
